---------------------------- MODULE Spec2Model ----------------------------
(***************************************************************************)
(* EasyNote / NoteMaster browser extension.                                *)
(*                                                                         *)
(* Three script contexts share chrome.storage.local["notes"]:              *)
(*   - the popup (class NoteMaster, scripts/popup.js), which keeps an      *)
(*     in-memory copy this.notes and rewrites the whole stored collection  *)
(*     on every save and delete;                                           *)
(*   - the background service worker (class BackgroundManager,             *)
(*     background.js), whose saveNote does get / unshift / set;            *)
(*   - the options page (class OptionsManager), whose clearAllNotes        *)
(*     stores the empty collection.                                        *)
(*                                                                         *)
(* Strings are sequences of characters, so that String.prototype.trim is   *)
(* computed and not assumed.  A timestamp is the value of the clock `now`. *)
(* An id is the pair <<Date.now(), Math.random() draw>>.                   *)
(***************************************************************************)
EXTENDS Integers, Sequences, FiniteSets, TLC

VARIABLES
    now,              \* Date.now() / new Date(): the wall clock
    idCount,          \* number of generateId() calls made so far
    storageNotes,     \* chrome.storage.local value under the key "notes"
    popupOpen,        \* a NoteMaster instance exists (popup document loaded)
    notes,            \* NoteMaster.notes
    view,             \* the notes last handed to renderNotes, as listed
    searchInput,      \* value of the #searchInput input
    sortSelect,       \* value of the #sortBy selector
    settings,         \* the popup's this.settings
    syncSettings,     \* chrome.storage.sync "settings": <<>> or <<object>>
    optionsSettings,  \* the options page's this.settings: <<>> while no
                      \* options page is loaded, else <<object>>
    download,         \* the file last handed to downloadFile: <<>> or <<file>>
    managers,         \* BackgroundManager instances whose listeners are registered
    clicks,           \* capture gestures that ContextMenuClick has dispatched
    readyState,       \* document.readyState when popup.js ran ("none" while
                      \* no popup document is loaded)
    domPending,       \* DOMContentLoaded is still to be dispatched
    instances,        \* NoteMaster instances constructed for this document
    currentNote,      \* NoteMaster.currentNote: <<>> (null) or <<note>>
    isEditing,        \* NoteMaster.isEditing
    noteTitle,        \* value of the #noteTitle input
    noteEditor,       \* innerHTML of the #noteEditor element
    autoSaveTimeout,  \* setupAutoSave: a timer is pending
    armedFor,         \* id of the note whose input event armed the pending
                      \* timer last (NoId while no timer is pending)
    closePrompt,      \* closeNoteModal's confirm() dialog is showing
    installed,        \* runtime.onInstalled(reason "install") was delivered
    inflight,         \* BackgroundManager.saveNote calls between get and set
    out,              \* what the handler run by the last step wrote and showed
                      \* (NoOut after a step that ran no such handler)
    removed           \* history: ids deleted from the stored collection

vars == <<now, idCount, storageNotes, popupOpen, notes, view, searchInput, sortSelect, settings,
         syncSettings, optionsSettings, download, managers, clicks,
          readyState, domPending, instances,
          currentNote, isEditing,
          noteTitle, noteEditor, autoSaveTimeout, armedFor, closePrompt, installed,
          inflight, out, removed>>

\* the popup document's load state
bootVars == <<readyState, domPending, instances>>

-----------------------------------------------------------------------------
(* Bounds of the model *)

MaxTime == 1
MaxIds == 2
RandMax == 2
MaxInFlight == 1
MaxManagers == 2
MaxClicks == 2

-----------------------------------------------------------------------------
(* Strings *)

WS == {" "}

RECURSIVE TrimStart(_)
TrimStart(s) ==
    IF s # <<>> /\ Head(s) \in WS THEN TrimStart(Tail(s)) ELSE s

RECURSIVE TrimEnd(_)
TrimEnd(s) ==
    IF s # <<>> /\ s[Len(s)] \in WS THEN TrimEnd(SubSeq(s, 1, Len(s) - 1)) ELSE s

Trim(s) == TrimEnd(TrimStart(s))

\* String.prototype.toLowerCase, on the letters A to Z
UpperLetters ==
    << "A", "B", "C", "D", "E", "F", "G", "H", "I", "J", "K", "L", "M", "N",
       "O", "P", "Q", "R", "S", "T", "U", "V", "W", "X", "Y", "Z" >>

LowerLetters ==
    << "a", "b", "c", "d", "e", "f", "g", "h", "i", "j", "k", "l", "m", "n",
       "o", "p", "q", "r", "s", "t", "u", "v", "w", "x", "y", "z" >>

IndexIn(letters, c) ==
    IF \E i \in 1..Len(letters) : letters[i] = c
    THEN CHOOSE i \in 1..Len(letters) : letters[i] = c
    ELSE 0

LowerOf ==
    [ c \in { UpperLetters[i] : i \in 1..Len(UpperLetters) } |->
        LowerLetters[IndexIn(UpperLetters, c)] ]

LowerChar(c) == IF c \in DOMAIN LowerOf THEN LowerOf[c] ELSE c

toLowerCase(s) == [ i \in 1..Len(s) |-> LowerChar(s[i]) ]

\* String.prototype.includes
includes(s, sub) ==
    \E i \in 0..(Len(s) - Len(sub)) : \A j \in 1..Len(sub) : s[i + j] = sub[j]

\* String.prototype.localeCompare for texts of letters, spaces and "!":
\* first by the letters whatever their case, a space and "!" before every
\* letter and a prefix before its extensions; then, the letters being the
\* same, lower case before upper case at the first difference
CollationOrder == << " ", "!" >> \o LowerLetters

RECURSIVE PrimaryCompare(_, _)
PrimaryCompare(a, b) ==
    IF a = <<>> /\ b = <<>> THEN 0
    ELSE IF a = <<>> THEN -1
    ELSE IF b = <<>> THEN 1
    ELSE LET ra == IndexIn(CollationOrder, LowerChar(Head(a)))
             rb == IndexIn(CollationOrder, LowerChar(Head(b)))
         IN  IF ra < rb THEN -1
             ELSE IF ra > rb THEN 1
             ELSE PrimaryCompare(Tail(a), Tail(b))

RECURSIVE CaseCompare(_, _)
CaseCompare(a, b) ==
    IF a = <<>> \/ b = <<>> THEN 0
    ELSE IF Head(a) = Head(b) THEN CaseCompare(Tail(a), Tail(b))
    ELSE IF IndexIn(LowerLetters, Head(a)) # 0 THEN -1
    ELSE 1

localeCompare(a, b) ==
    IF PrimaryCompare(a, b) # 0 THEN PrimaryCompare(a, b) ELSE CaseCompare(a, b)

\* the texts the program writes into notes, character by character
UntitledNote ==
    << "U", "n", "t", "i", "t", "l", "e", "d", " ", "N", "o", "t", "e" >>

SelectionTitlePrefix ==
    << "S", "e", "l", "e", "c", "t", "i", "o", "n", " ", "f", "r", "o", "m",
       " " >>

ParagraphOpen == << "<", "p", ">" >>

SourceOpen ==
    << "<", "/", "p", ">", "<", "b", "r", ">", "<", "p", ">", "<", "e", "m",
       ">", "S", "o", "u", "r", "c", "e", ":", " ", "<", "a", " ", "h", "r",
       "e", "f", "=", "\"" >>

UrlOpen ==
    << "<", "p", ">", "<", "s", "t", "r", "o", "n", "g", ">", "U", "R", "L",
       ":", "<", "/", "s", "t", "r", "o", "n", "g", ">", " ", "<", "a", " ",
       "h", "r", "e", "f", "=", "\"" >>

LinkMiddle == << "\"", ">" >>

SourceClose ==
    << "<", "/", "a", ">", "<", "/", "e", "m", ">", "<", "/", "p", ">" >>

UrlClose == << "<", "/", "a", ">", "<", "/", "p", ">" >>

WelcomeTitle ==
    << "W", "e", "l", "c", "o", "m", "e", " ", "t", "o", " ", "N", "o", "t",
       "e", "M", "a", "s", "t", "e", "r", "!" >>

\* the welcome note's content, shortened to its first element: a template
\* literal that begins and ends with a line break and indentation
WelcomeContent ==
    << " ", "<", "h", "2", ">", "W", "e", "l", "c", "o", "m", "e", " ", "t",
       "o", " ", "N", "o", "t", "e", "M", "a", "s", "t", "e", "r", "!", "<",
       "/", "h", "2", ">", " " >>

\* what the user can type into #noteTitle and #noteEditor
TitleInputs == { <<" ">> }
EditorInputs == { <<" ">>, <<"c">> }

\* what a context-menu click carries: info.selectionText, tab.title, tab.url
SelectionTexts == { <<>>, <<"s", "<">> }
TabTitle == <<"P">>
TabUrl == <<"u">>

\* the tab of a context-menu click: tab.title and tab.url, each empty where
\* the page has none or the browser does not give it
CompleteTab == [ title |-> TabTitle, url |-> TabUrl ]
Tabs == { CompleteTab,
          [ title |-> <<>>, url |-> TabUrl ],
          [ title |-> TabTitle, url |-> <<>> ] }

-----------------------------------------------------------------------------
(* Faulty variants of operators of the popup, used to test that the        *)
(* properties below tell the program from a wrong one.                     *)

\* an empty-note rule that rejects nothing
NeverEmpty(title, content) == FALSE

\* a rejection that never shows the alert
NoRejectionMessage(showFeedback) == "none"

\* an upsert that always inserts at the front
AlwaysUnshift(coll, n) == <<n>> \o coll

\* a clearAllNotes that takes any typed text for the confirmation
AnyTextConfirms(confirmation) == confirmation # "null"

\* a load that keeps the stored order
KeepOrder(coll) == coll

\* a search that looks at titles only
MatchesTitle(note, searchTerm) == includes(toLowerCase(note.title), searchTerm)

\* a comparator that knows no criterion but "modified"
CompareModified(sortBy, a, b) == b.modified - a.modified

\* a filter that drops the first note, whatever its id
DropFirst(coll, id) == IF coll = <<>> THEN <<>> ELSE Tail(coll)

\* a test of a setting that never finds it switched on
NeverTruthy(object, key) == FALSE

\* a save that also stamps the note's creation time
RecreatedNote(n, title, content, t) ==
    [ n EXCEPT !.title = IF title = <<>> THEN UntitledNote ELSE title,
               !.content = content,
               !.created = t,
               !.modified = t ]

\* a save that stamps the note with the epoch instead of the current time
BackdatedNote(n, title, content, t) ==
    [ n EXCEPT !.title = IF title = <<>> THEN UntitledNote ELSE title,
               !.content = content,
               !.modified = 0 ]

-----------------------------------------------------------------------------
(* Notes and collections *)

\* createNewNote's notes have no tags and no category
NoTags == <<>>

Ids(coll) == { coll[i].id : i \in 1..Len(coll) }

HasDuplicateIds(coll) ==
    \E i, j \in 1..Len(coll) : i # j /\ coll[i].id = coll[j].id

\* Array.prototype.findIndex((n) => n.id === id), 0 standing for -1
FindIndex(coll, id) ==
    IF \E i \in 1..Len(coll) : coll[i].id = id
    THEN CHOOSE i \in 1..Len(coll) :
            /\ coll[i].id = id
            /\ \A j \in 1..(i - 1) : coll[j].id # id
    ELSE 0

\* Array.prototype.filter((note) => note.id !== id)
RECURSIVE FilterOut(_, _)
FilterOut(coll, id) ==
    IF coll = <<>> THEN <<>>
    ELSE IF Head(coll).id = id THEN FilterOut(Tail(coll), id)
    ELSE <<Head(coll)>> \o FilterOut(Tail(coll), id)

\* Array.prototype.sort((a, b) => new Date(b.modified) - new Date(a.modified)):
\* a stable insertion sort, newest modified first
RECURSIVE InsertByModified(_, _)
InsertByModified(sorted, n) ==
    IF sorted = <<>> THEN <<n>>
    ELSE IF Head(sorted).modified >= n.modified
         THEN <<Head(sorted)>> \o InsertByModified(Tail(sorted), n)
         ELSE <<n>> \o sorted

RECURSIVE SortByModifiedDesc(_)
SortByModifiedDesc(coll) ==
    IF coll = <<>> THEN <<>>
    ELSE InsertByModified(SortByModifiedDesc(SubSeq(coll, 1, Len(coll) - 1)),
                          coll[Len(coll)])

\* generateId(): Date.now().toString(36) + Math.random().toString(36).substr(2)
generateId(r) == <<now, r>>

Rand == 1..RandMax

NewPopupNote(id) ==
    [ id |-> id, title |-> <<>>, content |-> <<>>, tags |-> NoTags,
      category |-> "", created |-> now, modified |-> now ]

-----------------------------------------------------------------------------
(* What a handler wrote and showed *)

NoId == <<>>

\* write: "none" (no write attempted), "rejected" (none attempted, by the
\* empty-note rule), "ok", "fail" (set rejected), "getfail" (get rejected)
Out(op, id, write, msg) == [ op |-> op, id |-> id, write |-> write, msg |-> msg ]

NoOut == Out("none", NoId, "none", "none")

WriteResult(ok) == IF ok THEN "ok" ELSE "fail"

-----------------------------------------------------------------------------
(* Settings objects *)

settingsVars == <<settings, syncSettings, optionsSettings>>

\* the settings the popup and the options page read
SettingKeys == { "theme", "fontSize", "fontFamily", "autoSave", "exportFormat" }

\* {}
EmptyObject == [ k \in {} |-> TRUE ]

\* the defaults of loadSettings (handleFirstInstall stores the same five,
\* and a backupFrequency that nothing reads)
DefaultSettings ==
    [ theme |-> "light", fontSize |-> 14, fontFamily |-> "system",
      autoSave |-> TRUE, exportFormat |-> "json" ]

\* object.key = value
SetKey(object, key, value) ==
    [ k \in DOMAIN object \cup { key } |-> IF k = key THEN value ELSE object[k] ]

\* object.key is not undefined
IsDefined(object, key) == key \in DOMAIN object

\* if (object.key), for a key that holds a boolean when it is defined
IsTruthy(object, key) == IsDefined(object, key) /\ object[key] = TRUE

\* NoteMaster.loadSettings: result.settings || defaults, and the defaults
\* again in the catch
loadSettings(syncOk) ==
    IF syncOk /\ syncSettings # <<>> THEN syncSettings[1] ELSE DefaultSettings

-----------------------------------------------------------------------------
(* Export files *)

\* the formats exportAllNotes has a case for, and the extension each case
\* appends after the "."
ExportFormats == { "json", "txt", "md", "html" }
ExtensionOf ==
    [ json |-> << "j", "s", "o", "n" >>, txt |-> << "t", "x", "t" >>,
      md |-> << "m", "d" >>, html |-> << "h", "t", "m", "l" >> ]

\* new Date().toISOString().split("T")[0], the clock counting days from
\* 1970-01-01
IsoDate(t) ==
    << "1", "9", "7", "0", "-", "0", "1", "-", "0" >>
        \o << << "1", "2", "3", "4", "5", "6", "7", "8", "9" >>[t + 1] >>

PopupPrefix == << "n", "o", "t", "e", "s" >>
OptionsPrefix ==
    << "n", "o", "t", "e", "m", "a", "s", "t", "e", "r", "_",
       "e", "x", "p", "o", "r", "t" >>

\* the filename exportAllNotes builds: `${prefix}_${date}`, and the
\* extension where the switch has a case for the format
ExportFilename(prefix, format, t) ==
    prefix \o << "_" >> \o IsoDate(t)
        \o IF format \in ExportFormats
           THEN << "." >> \o ExtensionOf[format] ELSE <<>>

\* notes.map(note => block).join(""): one block per note, reduced to the
\* text that opens it and the note's title
RECURSIVE Blocks(_, _)
Blocks(open, coll) ==
    IF coll = <<>> THEN <<>>
    ELSE << open >> \o Head(coll).title \o Blocks(open, Tail(coll))

\* the content exportAllNotes builds; it stays "" where the switch has no
\* case for the format
ExportContent(format, coll) ==
    CASE format = "json" -> << "[" >> \o Blocks("{", coll) \o << "]" >>
      [] format = "txt" -> Blocks("Title: ", coll)
      [] format = "md" -> Blocks("# ", coll)
      [] format = "html" ->
            << "<!DOCTYPE html>" >> \o Blocks("<div class=\"note\">", coll)
                \o << "</html>" >>
      [] OTHER -> <<>>

\* this.settings.exportFormat
exportFormat(object) ==
    IF IsDefined(object, "exportFormat") THEN object["exportFormat"]
    ELSE "undefined"

-----------------------------------------------------------------------------
(* State after construction: nothing installed yet, storage empty, popup  *)
(* not loaded.                                                             *)

Init ==
    /\ now = 0
    /\ idCount = 0
    /\ storageNotes = <<>>
    /\ popupOpen = FALSE
    /\ notes = <<>>
    /\ view = <<>>
    /\ searchInput = <<>>
    /\ sortSelect = "modified"
    /\ settings = EmptyObject
    /\ syncSettings = <<>>
    /\ optionsSettings = <<>>
    /\ download = <<>>
    /\ managers = 1
    /\ clicks = 0
    /\ readyState = "none"
    /\ domPending = FALSE
    /\ instances = 0
    /\ currentNote = <<>>
    /\ isEditing = FALSE
    /\ noteTitle = <<>>
    /\ noteEditor = <<>>
    /\ autoSaveTimeout = FALSE
    /\ armedFor = NoId
    /\ closePrompt = FALSE
    /\ installed = FALSE
    /\ inflight = <<>>
    /\ out = NoOut
    /\ removed = {}

-----------------------------------------------------------------------------
(* Popup: class NoteMaster *)

\* hasUnsavedChanges(), for a non-null currentNote n
hasUnsavedChanges(n, title, content) ==
    title # n.title \/ content # n.content

\* the empty-note rule of saveCurrentNote: !title && !content
IsEmptyNote(title, content) == title = <<>> /\ content = <<>>

\* saveCurrentNote's update of the note: title || "Untitled Note", content,
\* modified = new Date()
UpdatedNote(n, title, content, t) ==
    [ n EXCEPT !.title = IF title = <<>> THEN UntitledNote ELSE title,
               !.content = content,
               !.modified = t ]

\* saveCurrentNote's upsert into this.notes: findIndex, then unshift or assign
Upsert(coll, n) ==
    LET existingIndex == FindIndex(coll, n.id) IN
    IF existingIndex = 0 THEN <<n>> \o coll
    ELSE [ coll EXCEPT ![existingIndex] = n ]

\* saveNotes(): chrome.storage.local.set({ notes: this.notes }); a rejected
\* set is caught and logged, nothing is returned to the caller
saveNotes(coll, ok) == IF ok THEN coll ELSE storageNotes

\* the modal is hidden: isEditing = false, currentNote = null.  The two
\* inputs are not read again before openNoteModal overwrites them.
HideModal ==
    /\ currentNote' = <<>>
    /\ isEditing' = FALSE
    /\ closePrompt' = FALSE
    /\ noteTitle' = <<>>
    /\ noteEditor' = <<>>

\* the message saveCurrentNote shows when the empty-note rule rejects
RejectionMessage(showFeedback) ==
    IF showFeedback THEN "Please add a title or content to save the note."
    ELSE "none"

\* the message saveCurrentNote shows after saveNotes() returned
SavedMessage(showFeedback, ok) ==
    IF showFeedback THEN "Note saved successfully!" ELSE "none"

SaveOp(showFeedback) == IF showFeedback THEN "save" ELSE "autoSave"

\* saveCurrentNote(showFeedback) at time t, with the storage write
\* succeeding (ok) or rejecting: the handler up to and including its
\* continuation after `await this.saveNotes()`.
saveCurrentNote(showFeedback, ok, t) ==
    LET title == Trim(noteTitle)
        content == Trim(noteEditor)
    IN
    IF currentNote = <<>> THEN
        /\ UNCHANGED <<notes, view, searchInput, sortSelect, currentNote, isEditing, closePrompt, noteTitle,
                       noteEditor, storageNotes>>
        /\ out' = Out(SaveOp(showFeedback), NoId, "none", "none")
    ELSE IF IsEmptyNote(title, content) THEN
        /\ UNCHANGED <<notes, view, searchInput, sortSelect, currentNote, isEditing, closePrompt, noteTitle,
                       noteEditor, storageNotes>>
        /\ out' = Out(SaveOp(showFeedback), currentNote[1].id, "rejected",
                      RejectionMessage(showFeedback))
    ELSE
        LET n == UpdatedNote(currentNote[1], title, content, t) IN
        /\ notes' = Upsert(notes, n)
        /\ view' = notes'
        /\ UNCHANGED <<searchInput, sortSelect>>
        /\ storageNotes' = saveNotes(notes', ok)
        /\ out' = Out(SaveOp(showFeedback), n.id, WriteResult(ok),
                      SavedMessage(showFeedback, ok))
        /\ IF ~showFeedback THEN
               \* silent save: the editor stays open on the saved note
               /\ currentNote' = <<n>>
               /\ UNCHANGED <<isEditing, closePrompt, noteTitle, noteEditor>>
           ELSE IF isEditing /\ hasUnsavedChanges(n, noteTitle, noteEditor) THEN
               \* closeNoteModal(): confirm("You have unsaved changes...")
               /\ currentNote' = <<n>>
               /\ closePrompt' = TRUE
               /\ UNCHANGED <<isEditing, noteTitle, noteEditor>>
           ELSE HideModal

\* document.readyState as the script can read it
ReadyStates == { "loading", "interactive", "complete" }

\* the DOMContentLoaded listeners the script's top level registers: the
\* first constructs unconditionally, the second, registered only while
\* readyState is "loading", constructs if window.noteMaster is unset
Listeners(rs) ==
    IF rs = "loading" THEN <<"always", "ifUnset">> ELSE <<"always">>

\* the NoteMaster instances constructed once the listeners ls have run in
\* registration order, n instances having been constructed before
\* (window.noteMaster is set as soon as one was)
RECURSIVE RunListeners(_, _)
RunListeners(ls, n) ==
    IF ls = <<>> THEN n
    ELSE RunListeners(Tail(ls),
                      IF Head(ls) = "always" \/ n = 0 THEN n + 1 ELSE n)

\* the immediate branch of the script's top level: new NoteMaster() unless
\* readyState is "loading"
RunImmediate(rs, n) == IF rs = "loading" THEN n ELSE n + 1

\* new NoteMaster(): init() awaits loadSettings and loadNotes, then wires the
\* listeners.  loadNotes: a rejected get leaves this.notes = [].  Here the
\* whole load of a popup document whose script the parser runs: both
\* listeners are registered and DOMContentLoaded is dispatched.
PopupOpen(syncOk, readOk) ==
    /\ installed /\ ~popupOpen /\ readyState = "none"
    /\ popupOpen' = TRUE
    /\ notes' = IF readOk THEN SortByModifiedDesc(storageNotes) ELSE <<>>
    /\ view' = notes'
    /\ searchInput' = <<>>
    /\ sortSelect' = "modified"
    /\ settings' = loadSettings(syncOk)
    /\ UNCHANGED <<syncSettings, optionsSettings, download, managers, clicks>>
    /\ readyState' = "loading"
    /\ domPending' = FALSE
    /\ instances' = RunListeners(Listeners("loading"), instances)
    /\ out' = Out("load", NoId, IF readOk THEN "none" ELSE "getfail", "none")
    /\ UNCHANGED <<now, idCount, storageNotes, currentNote, isEditing, noteTitle,
                   noteEditor, autoSaveTimeout, armedFor, closePrompt, installed, inflight,
                   removed>>

\* the popup window goes away: the instance, its DOM and its timers with it
PopupClose ==
    /\ popupOpen
    /\ popupOpen' = FALSE
    /\ notes' = <<>>
    /\ view' = <<>>
    /\ searchInput' = <<>>
    /\ sortSelect' = "modified"
    /\ settings' = EmptyObject
    /\ UNCHANGED <<syncSettings, optionsSettings, download, managers, clicks>>
    /\ readyState' = "none"
    /\ domPending' = FALSE
    /\ instances' = 0
    /\ HideModal
    /\ autoSaveTimeout' = FALSE
    /\ armedFor' = NoId
    /\ UNCHANGED <<now, idCount, storageNotes, installed, inflight, removed>>
    /\ out' = NoOut

\* createNewNote() then openNoteModal(newNote).  The list and the New Note
\* button lie under the editor modal, so they are reached only while it is hidden.
CreateNewNote(r) ==
    /\ UNCHANGED <<settingsVars, download, managers, clicks, bootVars>>
    /\ popupOpen /\ ~isEditing
    /\ idCount < MaxIds
    /\ idCount' = idCount + 1
    /\ currentNote' = << NewPopupNote(generateId(r)) >>
    /\ isEditing' = TRUE
    /\ noteTitle' = <<>>
    /\ noteEditor' = <<>>
    /\ UNCHANGED <<now, storageNotes, popupOpen, notes, view, searchInput, sortSelect, autoSaveTimeout, armedFor, closePrompt,
                   installed, inflight, removed>>
    /\ out' = NoOut

\* the constructor and init() of the instance window.noteMaster is set to
NewNoteMaster(syncOk, readOk) ==
    /\ popupOpen' = TRUE
    /\ notes' = IF readOk THEN SortByModifiedDesc(storageNotes) ELSE <<>>
    /\ view' = notes'
    /\ searchInput' = <<>>
    /\ sortSelect' = "modified"
    /\ settings' = loadSettings(syncOk)
    /\ currentNote' = <<>>
    /\ isEditing' = FALSE
    /\ out' = Out("load", NoId, IF readOk THEN "none" ELSE "getfail", "none")

\* the top level of popup.js runs while document.readyState is rs, with
\* DOMContentLoaded still to come (pending) or already dispatched
ScriptRun(rs, pending, syncOk, readOk) ==
    /\ installed /\ ~popupOpen /\ readyState = "none"
    /\ rs \in ReadyStates
    /\ rs = "loading" => pending
    /\ rs = "complete" => ~pending
    /\ readyState' = rs
    /\ domPending' = pending
    /\ instances' = RunImmediate(rs, instances)
    /\ IF instances' > instances
       THEN NewNoteMaster(syncOk, readOk)
       ELSE /\ out' = NoOut
            /\ UNCHANGED <<popupOpen, notes, view, searchInput, sortSelect,
                           settings, currentNote, isEditing>>
    /\ UNCHANGED <<syncSettings, optionsSettings, download, managers, clicks>>
    /\ UNCHANGED <<now, idCount, storageNotes, noteTitle, noteEditor,
                   autoSaveTimeout, armedFor, closePrompt, installed, inflight,
                   removed>>

\* the document dispatches DOMContentLoaded to the registered listeners
DOMContentLoaded(syncOk, readOk) ==
    /\ readyState # "none" /\ domPending
    /\ domPending' = FALSE
    /\ instances' = RunListeners(Listeners(readyState), instances)
    /\ IF instances' > instances
       THEN NewNoteMaster(syncOk, readOk)
       ELSE /\ out' = NoOut
            /\ UNCHANGED <<popupOpen, notes, view, searchInput, sortSelect,
                           settings, currentNote, isEditing>>
    /\ UNCHANGED <<syncSettings, optionsSettings, download, managers, clicks,
                   readyState>>
    /\ UNCHANGED <<now, idCount, storageNotes, noteTitle, noteEditor,
                   autoSaveTimeout, armedFor, closePrompt, installed, inflight,
                   removed>>

\* click on the i-th listed note: this.notes.find((n) => n.id === noteId),
\* then openNoteModal(note)
OpenNote(i) ==
    /\ UNCHANGED <<settingsVars, download, managers, clicks, bootVars>>
    /\ popupOpen /\ ~isEditing
    /\ i \in 1..Len(view)
    /\ LET note == notes[FindIndex(notes, view[i].id)] IN
        /\ currentNote' = <<note>>
        /\ noteTitle' = note.title
        /\ noteEditor' = note.content
    /\ isEditing' = TRUE
    /\ UNCHANGED <<now, idCount, storageNotes, popupOpen, notes, view, searchInput, sortSelect, autoSaveTimeout, armedFor,
                   closePrompt, installed, inflight, removed>>
    /\ out' = NoOut

\* "input" event on #noteTitle: the value changes and autoSave() re-arms the timer
TypeTitle(v) ==
    /\ UNCHANGED <<settingsVars, download, managers, clicks, bootVars>>
    /\ popupOpen /\ isEditing /\ ~closePrompt
    /\ noteTitle' = v
    /\ autoSaveTimeout' = (autoSaveTimeout \/ IsTruthy(settings, "autoSave"))
    /\ armedFor' = IF IsTruthy(settings, "autoSave") THEN currentNote[1].id
                   ELSE armedFor
    /\ UNCHANGED <<now, idCount, storageNotes, popupOpen, notes, view, searchInput, sortSelect, currentNote,
                   isEditing, noteEditor, closePrompt, installed, inflight,
                   removed>>
    /\ out' = Out("input", currentNote[1].id, "none", "none")

\* "input" event on #noteEditor
TypeEditor(v) ==
    /\ UNCHANGED <<settingsVars, download, managers, clicks, bootVars>>
    /\ popupOpen /\ isEditing /\ ~closePrompt
    /\ noteEditor' = v
    /\ autoSaveTimeout' = (autoSaveTimeout \/ IsTruthy(settings, "autoSave"))
    /\ armedFor' = IF IsTruthy(settings, "autoSave") THEN currentNote[1].id
                   ELSE armedFor
    /\ UNCHANGED <<now, idCount, storageNotes, popupOpen, notes, view, searchInput, sortSelect, currentNote,
                   isEditing, noteTitle, closePrompt, installed, inflight,
                   removed>>
    /\ out' = Out("input", currentNote[1].id, "none", "none")

\* Save button, or Ctrl+S while editing: saveCurrentNote()
SaveClick(ok) ==
    /\ UNCHANGED <<settingsVars, download, managers, clicks, bootVars>>
    /\ popupOpen /\ isEditing /\ ~closePrompt
    /\ saveCurrentNote(TRUE, ok, now)
    /\ UNCHANGED <<now, idCount, popupOpen, autoSaveTimeout, armedFor, installed, inflight,
                   removed>>

\* the auto-save timer fires, 2000 ms after the last input event
AutoSaveFire(ok) ==
    /\ UNCHANGED <<settingsVars, download, managers, clicks, bootVars>>
    /\ popupOpen /\ autoSaveTimeout /\ ~closePrompt
    /\ now < MaxTime
    /\ \E t \in (now + 1)..MaxTime :
        /\ now' = t
        /\ IF isEditing /\ currentNote # <<>>
           THEN saveCurrentNote(FALSE, ok, t)
           ELSE /\ out' = NoOut
                /\ UNCHANGED <<notes, view, searchInput, sortSelect, currentNote, isEditing, closePrompt, noteTitle,
                               noteEditor, storageNotes>>
    /\ autoSaveTimeout' = FALSE
    /\ armedFor' = NoId
    /\ UNCHANGED <<idCount, popupOpen, installed, inflight, removed>>

\* Close button, Escape, or a click on the modal backdrop: closeNoteModal()
CloseClick ==
    /\ UNCHANGED <<settingsVars, download, managers, clicks, bootVars>>
    /\ popupOpen /\ isEditing /\ ~closePrompt
    /\ IF currentNote # <<>> /\ hasUnsavedChanges(currentNote[1], noteTitle, noteEditor)
       THEN /\ closePrompt' = TRUE
            /\ UNCHANGED <<currentNote, isEditing, noteTitle, noteEditor>>
       ELSE HideModal
    /\ UNCHANGED <<now, idCount, storageNotes, popupOpen, notes, view, searchInput, sortSelect, autoSaveTimeout, armedFor,
                   installed, inflight, removed>>
    /\ out' = NoOut

\* the user answers closeNoteModal's confirm(): OK runs saveCurrentNote(),
\* Cancel hides the modal
AnswerClosePrompt(yes, ok) ==
    /\ UNCHANGED <<settingsVars, download, managers, clicks, bootVars>>
    /\ popupOpen /\ closePrompt
    /\ IF yes
       THEN saveCurrentNote(TRUE, ok, now)
       ELSE /\ HideModal
            /\ out' = NoOut
            /\ UNCHANGED <<notes, view, searchInput, sortSelect, storageNotes>>
    /\ UNCHANGED <<now, idCount, popupOpen, autoSaveTimeout, armedFor, installed, inflight,
                   removed>>

\* deleteNote(noteId): confirm(), filter, saveNotes, "Note deleted"
DeleteNote(id, confirmed, ok) ==
    /\ UNCHANGED <<settingsVars, download, managers, clicks, bootVars>>
    /\ popupOpen /\ ~isEditing
    /\ IF confirmed
       THEN /\ notes' = FilterOut(notes, id)
            /\ view' = notes'
            /\ storageNotes' = saveNotes(notes', ok)
            /\ out' = Out("delete", id, WriteResult(ok), "Note deleted")
            /\ removed' = IF id \in Ids(storageNotes) /\ id \notin Ids(storageNotes')
                          THEN removed \cup {id} ELSE removed
       ELSE /\ out' = Out("delete", id, "none", "none")
            /\ UNCHANGED <<notes, view, searchInput, sortSelect, storageNotes, removed>>
    /\ UNCHANGED <<now, idCount, popupOpen, searchInput, sortSelect, currentNote, isEditing,
                   noteTitle, noteEditor, autoSaveTimeout, armedFor, closePrompt, installed,
                   inflight>>

\* what the user can type into #searchInput
SearchQueries ==
    { <<>>, << " " >>, << "N", "O", "T", "E" >>, << "u", "r", "l" >>,
      << " ", "P" >> }

\* searchNotes' filter: the term is in the lower-cased title or content
Matches(note, searchTerm) ==
    \/ includes(toLowerCase(note.title), searchTerm)
    \/ includes(toLowerCase(note.content), searchTerm)

RECURSIVE FilterMatching(_, _)
FilterMatching(coll, searchTerm) ==
    IF coll = <<>> THEN <<>>
    ELSE IF Matches(Head(coll), searchTerm)
         THEN <<Head(coll)>> \o FilterMatching(Tail(coll), searchTerm)
         ELSE FilterMatching(Tail(coll), searchTerm)

\* "input" event on #searchInput, or a click on the search button:
\* searchNotes(query)
SearchNotes(query) ==
    /\ UNCHANGED <<settingsVars, download, managers, clicks, bootVars>>
    /\ popupOpen /\ ~isEditing
    /\ searchInput' = query
    /\ UNCHANGED sortSelect
    /\ LET searchTerm == Trim(toLowerCase(query)) IN
        view' = IF searchTerm = <<>> THEN notes
                ELSE FilterMatching(notes, searchTerm)
    /\ out' = Out("search", NoId, "none", "none")
    /\ UNCHANGED <<now, idCount, storageNotes, popupOpen, notes, currentNote,
                   isEditing, noteTitle, noteEditor, autoSaveTimeout, armedFor, closePrompt,
                   installed, inflight, removed>>

\* the values of the sort selector, and one it does not have
SortCriteria == { "modified", "created", "title", "size" }

\* the comparator sortNotes hands to Array.prototype.sort
compareFn(sortBy, a, b) ==
    CASE sortBy = "created" -> b.created - a.created
      [] sortBy = "title" -> localeCompare(a.title, b.title)
      [] OTHER -> b.modified - a.modified

\* Array.prototype.sort(compareFn), a stable insertion sort
RECURSIVE InsertSorted(_, _, _)
InsertSorted(sortBy, sorted, n) ==
    IF sorted = <<>> THEN <<n>>
    ELSE IF compareFn(sortBy, Head(sorted), n) <= 0
         THEN <<Head(sorted)>> \o InsertSorted(sortBy, Tail(sorted), n)
         ELSE <<n>> \o sorted

RECURSIVE SortBy(_, _)
SortBy(sortBy, coll) ==
    IF coll = <<>> THEN <<>>
    ELSE InsertSorted(sortBy, SortBy(sortBy, SubSeq(coll, 1, Len(coll) - 1)),
                      coll[Len(coll)])

\* "change" event on the sort selector: sortNotes(sortBy)
SortNotes(sortBy) ==
    /\ UNCHANGED <<settingsVars, download, managers, clicks, bootVars>>
    /\ popupOpen /\ ~isEditing
    /\ view' = SortBy(sortBy, notes)
    /\ UNCHANGED searchInput
    /\ sortSelect' = sortBy
    /\ out' = Out("sort", NoId, "none", "none")
    /\ UNCHANGED <<now, idCount, storageNotes, popupOpen, notes, currentNote,
                   isEditing, noteTitle, noteEditor, autoSaveTimeout, armedFor, closePrompt,
                   installed, inflight, removed>>

\* Export button of the popup: exportAllNotes(), with
\* format = this.settings.exportFormat || "json"
PopupExport ==
    /\ popupOpen /\ ~isEditing
    /\ LET format == IF IsDefined(settings, "exportFormat")
                     THEN settings["exportFormat"] ELSE "json"
       IN download' = << [ filename |-> ExportFilename(PopupPrefix, format, now),
                           content |-> ExportContent(format, notes) ] >>
    /\ out' = Out("exportAllNotes", NoId, "none", "All notes exported!")
    /\ UNCHANGED <<settingsVars, managers, clicks, bootVars>>
    /\ UNCHANGED <<now, idCount, storageNotes, popupOpen, notes, view, searchInput,
                   sortSelect, currentNote, isEditing, noteTitle, noteEditor,
                   autoSaveTimeout, armedFor, closePrompt, installed, inflight, removed>>

\* time passes
Tick ==
    /\ UNCHANGED <<settingsVars, download, managers, clicks, bootVars>>
    /\ now < MaxTime
    /\ now' = now + 1
    /\ UNCHANGED <<idCount, storageNotes, popupOpen, notes, view, searchInput, sortSelect, currentNote, isEditing,
                   noteTitle, noteEditor, autoSaveTimeout, armedFor, closePrompt, installed,
                   inflight, removed>>
    /\ out' = NoOut

-----------------------------------------------------------------------------
(* Background: class BackgroundManager *)

\* escapeHtml(text): div.textContent = text; return div.innerHTML
EscapeChar(c) ==
    CASE c = "&" -> << "&", "a", "m", "p", ";" >>
      [] c = "<" -> << "&", "l", "t", ";" >>
      [] c = ">" -> << "&", "g", "t", ";" >>
      [] OTHER -> << c >>

RECURSIVE escapeHtml(_)
escapeHtml(text) ==
    IF text = <<>> THEN <<>>
    ELSE EscapeChar(Head(text)) \o escapeHtml(Tail(text))

\* saveSelectedText's note
SelectionNote(id, selectedText) ==
    [ id |-> id,
      title |-> SelectionTitlePrefix \o TabTitle,
      content |-> ParagraphOpen \o escapeHtml(selectedText) \o SourceOpen
                  \o TabUrl \o LinkMiddle \o TabTitle \o SourceClose,
      tags |-> <<"web-clip">>, category |-> "web",
      created |-> now, modified |-> now ]

\* savePageInfo's note (without the "Saved:" paragraph of its content)
PageNote(id, tab) ==
    [ id |-> id,
      title |-> tab.title,
      content |-> UrlOpen \o tab.url \o LinkMiddle \o tab.url \o UrlClose,
      tags |-> <<"bookmark", "web-clip">>, category |-> "web",
      created |-> now, modified |-> now ]

\* handleFirstInstall's welcome note
WelcomeNote(id) ==
    [ id |-> id,
      title |-> WelcomeTitle,
      content |-> WelcomeContent,
      tags |-> <<"welcome", "guide">>, category |-> "system",
      created |-> now, modified |-> now ]

\* the notification the caller of saveNote shows once saveNote returned
Notification(kind) ==
    CASE kind = "saveSelectedText" -> "Text saved to NoteMaster!"
      [] kind = "savePageInfo" -> "Page saved to NoteMaster!"
      [] OTHER -> "Welcome to NoteMaster! Check out your first note to get started."

\* saveNote(note) up to the answer of chrome.storage.local.get: the call is
\* now between its get and its set, holding the collection it read.  A
\* rejected get is caught inside saveNote, which returns normally, so the
\* caller shows its notification.
saveNoteGet(kind, note, readOk) ==
    IF readOk
    THEN /\ inflight' = Append(inflight, [ kind |-> kind, note |-> note,
                                           read |-> storageNotes ])
         /\ out' = NoOut
    ELSE /\ out' = Out(kind, note.id, "getfail", Notification(kind))
         /\ UNCHANGED inflight

\* runtime.onInstalled with reason "install": handleFirstInstall() stores the
\* default settings (a write taken to resolve), then saves the welcome note
Install(r, readOk) ==
    /\ ~installed
    /\ installed' = TRUE
    /\ syncSettings' = << DefaultSettings >>
    /\ UNCHANGED <<settings, optionsSettings, download, managers, clicks, bootVars>>
    /\ idCount < MaxIds
    /\ idCount' = idCount + 1
    /\ saveNoteGet("install", WelcomeNote(generateId(r)), readOk)
    /\ UNCHANGED <<now, storageNotes, popupOpen, notes, view, searchInput, sortSelect, currentNote, isEditing,
                   noteTitle, noteEditor, autoSaveTimeout, armedFor, closePrompt, removed>>

\* context-menu click "saveSelectedText": saveSelectedText(info, tab).
\* escapeHtml needs `document`; where the background context has none the
\* ReferenceError is caught by handleContextMenuClick and nothing is saved.
SaveSelectedText(selectedText, r, hasDocument, readOk) ==
    /\ UNCHANGED <<settingsVars, download, managers, clicks, bootVars>>
    /\ installed
    /\ Len(inflight) < MaxInFlight
    /\ IF selectedText = <<>> THEN
           /\ out' = Out("saveSelectedText", NoId, "none", "none")
           /\ UNCHANGED <<idCount, inflight>>
       ELSE
           /\ idCount < MaxIds
           /\ idCount' = idCount + 1
           /\ IF hasDocument
              THEN saveNoteGet("saveSelectedText",
                               SelectionNote(generateId(r), selectedText), readOk)
              ELSE /\ out' = Out("saveSelectedText", NoId, "none", "none")
                   /\ UNCHANGED inflight
    /\ UNCHANGED <<now, storageNotes, popupOpen, notes, view, searchInput, sortSelect, currentNote, isEditing,
                   noteTitle, noteEditor, autoSaveTimeout, armedFor, closePrompt, installed,
                   removed>>

\* context-menu click "savePageInfo": savePageInfo(info, tab)
SavePageInfo(tab, r, readOk) ==
    /\ UNCHANGED <<settingsVars, download, managers, clicks, bootVars>>
    /\ installed
    /\ Len(inflight) < MaxInFlight
    /\ idCount < MaxIds
    /\ idCount' = idCount + 1
    /\ saveNoteGet("savePageInfo", PageNote(generateId(r), tab), readOk)
    /\ UNCHANGED <<now, storageNotes, popupOpen, notes, view, searchInput, sortSelect, currentNote, isEditing,
                   noteTitle, noteEditor, autoSaveTimeout, armedFor, closePrompt, installed,
                   removed>>

\* the rest of saveNote(note) for the i-th call in flight: notes.unshift(note),
\* chrome.storage.local.set({ notes }), then the caller's showNotification
saveNoteSet(i, ok) ==
    /\ UNCHANGED <<settingsVars, download, managers, clicks, bootVars>>
    /\ i \in 1..Len(inflight)
    /\ LET call == inflight[i] IN
        /\ storageNotes' = IF ok THEN <<call.note>> \o call.read ELSE storageNotes
        /\ out' = Out(call.kind, call.note.id, WriteResult(ok), Notification(call.kind))
    /\ inflight' = SubSeq(inflight, 1, i - 1) \o SubSeq(inflight, i + 1, Len(inflight))
    /\ UNCHANGED <<now, idCount, popupOpen, notes, view, searchInput, sortSelect, currentNote, isEditing, noteTitle,
                   noteEditor, autoSaveTimeout, armedFor, closePrompt, installed, removed>>

\* the context-menu items
MenuItems == { "saveSelectedText", "savePageInfo" }

\* the note the handler of a menu item builds from a selection and a tab
\* that have the data it needs
CaptureNote(menuItemId, id) ==
    IF menuItemId = "saveSelectedText"
    THEN SelectionNote(id, << "s", "<" >>)
    ELSE PageNote(id, CompleteTab)

\* contextMenus.onClicked with valid data, where `document` exists: the
\* event goes to the listener of every BackgroundManager, one after the
\* other; each handler builds its own note and runs saveNote up to its
\* await of chrome.storage.local.get, so all of them read the collection as
\* it is now
ContextMenuClick(menuItemId) ==
    /\ installed
    /\ clicks < MaxClicks
    /\ clicks' = clicks + 1
    /\ idCount' = idCount + managers
    /\ inflight' = inflight \o
          [ j \in 1..managers |->
                [ kind |-> menuItemId,
                  note |-> CaptureNote(menuItemId, generateId(idCount + j)),
                  read |-> storageNotes ] ]
    /\ out' = NoOut
    /\ UNCHANGED <<settingsVars, download, managers, bootVars>>
    /\ UNCHANGED <<now, storageNotes, popupOpen, notes, view, searchInput,
                   sortSelect, currentNote, isEditing, noteTitle, noteEditor,
                   autoSaveTimeout, armedFor, closePrompt, installed, removed>>

\* runtime.onMessage with action "syncNotes": new BackgroundManager() runs
\* init(), which registers every listener once more, and the call of
\* performSync, which the class does not have, throws
SyncNotesMessage ==
    /\ managers < MaxManagers
    /\ managers' = managers + 1
    /\ out' = NoOut
    /\ UNCHANGED <<settingsVars, download, clicks, bootVars>>
    /\ UNCHANGED <<now, idCount, storageNotes, popupOpen, notes, view, searchInput,
                   sortSelect, currentNote, isEditing, noteTitle, noteEditor,
                   autoSaveTimeout, armedFor, closePrompt, installed, inflight, removed>>

-----------------------------------------------------------------------------
(* Options page: class OptionsManager *)

\* what the user types into clearAllNotes' prompt(); "null" is Cancel
Confirmations == { "DELETE", "delete", "null" }

\* clearAllNotes' test of the typed text: confirmation === "DELETE"
IsConfirmed(confirmation) == confirmation = "DELETE"

\* clearAllNotes()
clearAllNotes(confirmation, ok) ==
    /\ UNCHANGED <<settingsVars, download, managers, clicks, bootVars>>
    /\ installed
    /\ IF IsConfirmed(confirmation)
       THEN /\ storageNotes' = IF ok THEN <<>> ELSE storageNotes
            /\ out' = Out("clearAll", NoId, WriteResult(ok),
                          IF ok THEN "All notes have been deleted"
                                ELSE "Error clearing notes")
            /\ removed' = IF ok THEN removed \cup Ids(storageNotes) ELSE removed
       ELSE /\ out' = Out("clearAll", NoId, "none", "none")
            /\ UNCHANGED <<storageNotes, removed>>
    /\ UNCHANGED <<now, idCount, popupOpen, notes, view, searchInput, sortSelect, currentNote, isEditing, noteTitle,
                   noteEditor, autoSaveTimeout, armedFor, closePrompt, installed, inflight>>

\* new OptionsManager(): this.settings = {}, then init() awaits
\* loadSettings, whose catch only logs
OptionsOpen(syncOk) ==
    /\ installed
    /\ optionsSettings' =
          << IF syncOk
             THEN IF syncSettings # <<>> THEN syncSettings[1] ELSE DefaultSettings
             ELSE EmptyObject >>
    /\ out' = Out("loadSettings", NoId, IF syncOk THEN "none" ELSE "getfail", "none")
    /\ UNCHANGED <<settings, syncSettings, download, managers, clicks, bootVars>>
    /\ UNCHANGED <<now, idCount, storageNotes, popupOpen, notes, view, searchInput,
                   sortSelect, currentNote, isEditing, noteTitle, noteEditor,
                   autoSaveTimeout, armedFor, closePrompt, installed, inflight, removed>>

\* what the form elements of the options page can be set to
SettingInputs ==
    { << "theme", "dark" >>, << "autoSave", FALSE >>, << "exportFormat", "md" >> }

\* "change" event on a form element: this.settings[key] = value
OptionsChange(key, value) ==
    /\ optionsSettings # <<>>
    /\ optionsSettings' = << SetKey(optionsSettings[1], key, value) >>
    /\ out' = NoOut
    /\ UNCHANGED <<settings, syncSettings, download, managers, clicks, bootVars>>
    /\ UNCHANGED <<now, idCount, storageNotes, popupOpen, notes, view, searchInput,
                   sortSelect, currentNote, isEditing, noteTitle, noteEditor,
                   autoSaveTimeout, armedFor, closePrompt, installed, inflight, removed>>

\* Save settings button: saveSettings()
saveSettings(ok) ==
    /\ optionsSettings # <<>>
    /\ syncSettings' = IF ok THEN optionsSettings ELSE syncSettings
    /\ out' = Out("saveSettings", NoId, WriteResult(ok),
                  IF ok THEN "Settings saved successfully!"
                        ELSE "Error saving settings")
    /\ UNCHANGED <<settings, optionsSettings, download, managers, clicks, bootVars>>
    /\ UNCHANGED <<now, idCount, storageNotes, popupOpen, notes, view, searchInput,
                   sortSelect, currentNote, isEditing, noteTitle, noteEditor,
                   autoSaveTimeout, armedFor, closePrompt, installed, inflight, removed>>

\* Export all notes button of the options page: exportAllNotes()
OptionsExport(readOk) ==
    /\ optionsSettings # <<>>
    /\ IF ~readOk THEN
           /\ out' = Out("exportAllNotes", NoId, "getfail", "Error exporting notes")
           /\ UNCHANGED download
       ELSE IF storageNotes = <<>> THEN
           /\ out' = Out("exportAllNotes", NoId, "none", "No notes to export")
           /\ UNCHANGED download
       ELSE
           /\ LET format == exportFormat(optionsSettings[1])
              IN download' =
                    << [ filename |-> ExportFilename(OptionsPrefix, format, now),
                         content |-> ExportContent(format, storageNotes) ] >>
           /\ out' = Out("exportAllNotes", NoId, "none",
                         "Exported " \o ToString(Len(storageNotes))
                             \o " notes successfully!")
    /\ UNCHANGED <<settingsVars, managers, clicks, bootVars>>
    /\ UNCHANGED <<now, idCount, storageNotes, popupOpen, notes, view, searchInput,
                   sortSelect, currentNote, isEditing, noteTitle, noteEditor,
                   autoSaveTimeout, armedFor, closePrompt, installed, inflight, removed>>

-----------------------------------------------------------------------------
(* The system *)

\* an id no note has: generateId is never called at time -1
AbsentId == <<-1, 0>>

\* the ids deleteNote is called with: those of the listed notes (a click
\* on a note's delete button) and one that no note has
DeleteIds == Ids(view) \cup {AbsentId}

\* Math.random() draws that differ from every earlier draw
FreshDraws == { idCount + 1 }

\* the results a storage call can have: TRUE, it resolves; FALSE, it rejects
Reliable == { TRUE }
Unreliable == BOOLEAN

\* the popup's handlers
PopupStep(Outcomes, Draws) ==
    \/ \E syncOk, readOk \in Outcomes : PopupOpen(syncOk, readOk)
    \/ PopupClose
    \/ \E r \in Draws : CreateNewNote(r)
    \/ \E i \in 1..Len(view) : OpenNote(i)
    \/ \E v \in TitleInputs : TypeTitle(v)
    \/ \E v \in EditorInputs : TypeEditor(v)
    \/ \E ok \in Outcomes : SaveClick(ok)
    \/ \E ok \in Outcomes : AutoSaveFire(ok)
    \/ CloseClick
    \/ \E yes \in BOOLEAN, ok \in Outcomes : AnswerClosePrompt(yes, ok)
    \/ \E id \in DeleteIds, confirmed \in BOOLEAN, ok \in Outcomes :
          DeleteNote(id, confirmed, ok)

\* the background service worker's handlers, on tabs that have a title and a
\* URL
BackgroundStep(Outcomes, Draws) ==
    \/ \E r \in Draws, readOk \in Outcomes : Install(r, readOk)
    \/ \E s \in SelectionTexts, r \in Draws, hasDocument \in BOOLEAN, readOk \in Outcomes :
          SaveSelectedText(s, r, hasDocument, readOk)
    \/ \E r \in Draws, readOk \in Outcomes : SavePageInfo(CompleteTab, r, readOk)
    \/ \E i \in 1..Len(inflight), ok \in Outcomes : saveNoteSet(i, ok)

\* the first-install flow alone
InstallStep(Outcomes, Draws) ==
    \/ \E r \in Draws, readOk \in Outcomes : Install(r, readOk)
    \/ \E i \in 1..Len(inflight), ok \in Outcomes : saveNoteSet(i, ok)

\* the options page's handlers
OptionsStep(Outcomes) ==
    \E c \in Confirmations, ok \in Outcomes : clearAllNotes(c, ok)

\* the popup after the first install, over a storage whose calls all resolve
Next ==
    \/ InstallStep(Reliable, FreshDraws)
    \/ PopupStep(Reliable, FreshDraws)
    \/ Tick

Spec == Init /\ [][Next]_vars

\* the three contexts over a storage whose calls all resolve
NextAll ==
    \/ BackgroundStep(Reliable, FreshDraws)
    \/ PopupStep(Reliable, FreshDraws)
    \/ OptionsStep(Reliable)
    \/ Tick

SpecAll == Init /\ [][NextAll]_vars

\* the popup after the first install, over a storage whose calls may reject
NextFaulty ==
    \/ InstallStep(Unreliable, FreshDraws)
    \/ PopupStep(Unreliable, FreshDraws)
    \/ Tick

SpecFaulty == Init /\ [][NextFaulty]_vars

\* the background and the options page, without a popup, over a storage
\* whose calls may reject
NextStore ==
    \/ BackgroundStep(Unreliable, FreshDraws)
    \/ OptionsStep(Unreliable)
    \/ Tick

SpecStore == Init /\ [][NextStore]_vars

\* the background alone, capturing from tabs of every kind, over a storage
\* whose calls may reject
NextCapture ==
    \/ \E r \in FreshDraws, readOk \in Unreliable : Install(r, readOk)
    \/ \E s \in SelectionTexts, r \in FreshDraws, hasDocument \in BOOLEAN,
          readOk \in Unreliable : SaveSelectedText(s, r, hasDocument, readOk)
    \/ \E tab \in Tabs, r \in FreshDraws, readOk \in Unreliable :
          SavePageInfo(tab, r, readOk)
    \/ \E i \in 1..Len(inflight), ok \in Unreliable : saveNoteSet(i, ok)
    \/ Tick

SpecCapture == Init /\ [][NextCapture]_vars

\* the settings as the three contexts load, change and store them, over a
\* storage whose calls may reject
NextSettings ==
    \/ \E r \in FreshDraws : Install(r, TRUE)
    \/ \E i \in 1..Len(inflight) : saveNoteSet(i, TRUE)
    \/ \E syncOk \in Unreliable : PopupOpen(syncOk, TRUE)
    \/ PopupClose
    \/ \E syncOk \in Unreliable : OptionsOpen(syncOk)
    \/ \E input \in SettingInputs : OptionsChange(input[1], input[2])
    \/ \E ok \in Unreliable : saveSettings(ok)
    \/ Tick

SpecSettings == Init /\ [][NextSettings]_vars

\* the background alone, over a storage whose calls all resolve: capture
\* gestures made once the first install has stored its note, and "syncNotes"
\* messages
NextClicks ==
    \/ \E r \in FreshDraws : Install(r, TRUE)
    \/ \E i \in 1..Len(inflight) : saveNoteSet(i, TRUE)
    \/ /\ \A i \in 1..Len(inflight) : inflight[i].kind # "install"
       /\ \E menuItemId \in MenuItems : ContextMenuClick(menuItemId)
    \/ SyncNotesMessage
    \/ Tick

SpecClicks == Init /\ [][NextClicks]_vars

\* loads of the popup document, the script running in any readyState, over
\* the collection the background page fills
NextBoot ==
    \/ BackgroundStep(Reliable, FreshDraws)
    \/ \E rs \in ReadyStates, pending \in BOOLEAN :
          ScriptRun(rs, pending, TRUE, TRUE)
    \/ DOMContentLoaded(TRUE, TRUE)
    \/ PopupClose
    \/ Tick

SpecBoot == Init /\ [][NextBoot]_vars

\* the popup and the options page exporting the notes under the settings
\* they loaded
NextExport ==
    \/ \E r \in FreshDraws : Install(r, TRUE)
    \/ \E i \in 1..Len(inflight) : saveNoteSet(i, TRUE)
    \/ \E syncOk \in Unreliable : PopupOpen(syncOk, TRUE)
    \/ PopupClose
    \/ \E syncOk \in Unreliable : OptionsOpen(syncOk)
    \/ \E input \in SettingInputs : OptionsChange(input[1], input[2])
    \/ saveSettings(TRUE)
    \/ PopupExport
    \/ \E readOk \in Unreliable : OptionsExport(readOk)
    \/ Tick

SpecExport == Init /\ [][NextExport]_vars

\* the popup with its auto-save timer and no explicit save (no Save button,
\* no OK to the prompt of the close button), over a storage whose calls all
\* resolve; a timer that stays armed does fire
NextAuto ==
    \/ InstallStep(Reliable, FreshDraws)
    \/ PopupOpen(TRUE, TRUE)
    \/ PopupClose
    \/ \E r \in FreshDraws : CreateNewNote(r)
    \/ \E i \in 1..Len(view) : OpenNote(i)
    \/ \E v \in TitleInputs : TypeTitle(v)
    \/ \E v \in EditorInputs : TypeEditor(v)
    \/ AutoSaveFire(TRUE)
    \/ CloseClick
    \/ AnswerClosePrompt(FALSE, TRUE)
    \/ Tick

SpecAuto == Init /\ [][NextAuto]_vars /\ WF_vars(AutoSaveFire(TRUE))

\* every way a note gets its timestamps: the first install, the two captures,
\* a new note in the popup, and the saves of the note the editor holds, a
\* new one or one opened again
NextStamps ==
    \/ BackgroundStep(Reliable, FreshDraws)
    \/ PopupOpen(TRUE, TRUE)
    \/ \E r \in FreshDraws : CreateNewNote(r)
    \/ \E i \in 1..Len(view) : OpenNote(i)
    \/ \E v \in EditorInputs : TypeEditor(v)
    \/ SaveClick(TRUE)
    \/ AutoSaveFire(TRUE)
    \/ Tick

SpecStamps == Init /\ [][NextStamps]_vars

\* the popup after the first install, over a storage whose writes resolve
\* and whose read in loadNotes may reject
NextLoad ==
    \/ InstallStep(Reliable, FreshDraws)
    \/ PopupStep(Reliable, FreshDraws)
    \/ PopupOpen(TRUE, FALSE)
    \/ Tick

SpecLoad == Init /\ [][NextLoad]_vars

\* a popup that lists and searches the notes the background stores
NextSearch ==
    \/ BackgroundStep(Reliable, FreshDraws)
    \/ PopupOpen(TRUE, TRUE)
    \/ PopupClose
    \/ \E query \in SearchQueries : SearchNotes(query)
    \/ Tick

SpecSearch == Init /\ [][NextSearch]_vars

\* a popup that lists and sorts the notes the background stores, and opens
\* and saves them again
NextSort ==
    \/ BackgroundStep(Reliable, FreshDraws)
    \/ PopupOpen(TRUE, TRUE)
    \/ PopupClose
    \/ \E sortBy \in SortCriteria : SortNotes(sortBy)
    \/ \E i \in 1..Len(view) : OpenNote(i)
    \/ SaveClick(TRUE)
    \/ CloseClick
    \/ \E yes \in BOOLEAN : AnswerClosePrompt(yes, TRUE)
    \/ Tick

SpecSort == Init /\ [][NextSort]_vars

\* the popup and the background, Math.random() free to repeat a draw
NextRandom ==
    \/ BackgroundStep(Reliable, Rand)
    \/ PopupStep(Reliable, Rand)
    \/ Tick

SpecRandom == Init /\ [][NextRandom]_vars

-----------------------------------------------------------------------------
(* Properties *)

PopupSaveOps == { "save", "autoSave" }

AlertMessage == "Please add a title or content to save the note."

\* the k-th smallest element of a set of indices
KthOf(S, k) == CHOOSE x \in S : Cardinality({ y \in S : y < x }) = k - 1

\* C5: a save (explicit or auto-save) whose title and content are both empty
\* after trimming leaves this.notes and the stored collection as they were
\* and attempts no storage write.
C5_EmptySaveChangesNothing ==
    [][ ( /\ out'.op \in PopupSaveOps
          /\ Trim(noteTitle) = <<>>
          /\ Trim(noteEditor) = <<>> )
        => ( /\ notes' = notes
             /\ storageNotes' = storageNotes
             /\ out'.write \in { "none", "rejected" } ) ]_vars

\* C5 witness: an auto-save of a note in the editor was rejected by the
\* empty-note rule while a note was stored
C5_Witness ==
    /\ out.op = "autoSave"
    /\ out.write = "rejected"
    /\ storageNotes # <<>>

\* C6 (as amended): every explicit save (button, Ctrl+S, save-on-close) that
\* the empty-note rule rejects shows the alert; a rejected auto-save shows
\* nothing.
C6_ExplicitRejectionAlerts ==
    out.write = "rejected" =>
        /\ out.op = "save" => out.msg = AlertMessage
        /\ out.op = "autoSave" => out.msg = "none"

\* C6 witness: an explicit save was rejected
C6_Witness ==
    /\ out.op = "save"
    /\ out.write = "rejected"
    /\ out.msg = AlertMessage

\* C6 as stated: every rejected save, the auto-save timer's included, shows
\* a prompt
C6_EveryRejectionSignals ==
    out.write = "rejected" => out.msg # "none"

\* C8: a successful popup save upserts by id.  A new id is inserted at index
\* 0 and the length grows by one; a present id keeps the length, its index
\* and every other note.  The saved note carries the trimmed content and
\* modified = the time of the save, and the collection is what is stored.
C8_SaveUpserts ==
    [][ ( out'.op \in PopupSaveOps /\ out'.write = "ok" )
        => LET id == out'.id
               i == FindIndex(notes, id)
               j == FindIndex(notes', id)
           IN  /\ currentNote # <<>> /\ currentNote[1].id = id
               /\ j # 0
               /\ IF i = 0
                  THEN /\ j = 1
                       /\ Len(notes') = Len(notes) + 1
                       /\ Tail(notes') = notes
                  ELSE /\ j = i
                       /\ Len(notes') = Len(notes)
                       /\ \A k \in 1..Len(notes) : k # i => notes'[k] = notes[k]
               /\ notes'[j].content = Trim(noteEditor)
               /\ notes'[j].modified = now'
               /\ notes'[j].created = currentNote[1].created
               /\ storageNotes' = notes' ]_vars

\* C8 witness: a note already in the collection at index 2 was saved at a
\* time after its creation, and is still at index 2
C8_Witness ==
    /\ out.op \in PopupSaveOps
    /\ out.write = "ok"
    /\ Len(notes) >= 2
    /\ notes[2].id = out.id
    /\ notes[2].modified = now
    /\ notes[2].modified > notes[2].created

\* C9: a confirmed deleteNote(id) leaves exactly the notes with another id,
\* in their order, and stores that collection; with an id no note has it
\* leaves the collection as it was.  A declined deleteNote changes and
\* writes nothing.
C9_DeleteRemovesExactlyOne ==
    [][ out'.op = "delete"
        => LET id == out'.id
               keep == { k \in 1..Len(notes) : notes[k].id # id }
           IN  IF out'.write = "none"
               THEN notes' = notes /\ storageNotes' = storageNotes
               ELSE /\ Len(notes') = Cardinality(keep)
                    /\ \A k \in 1..Len(notes') : notes'[k] = notes[KthOf(keep, k)]
                    /\ id \notin Ids(notes) => notes' = notes
                    /\ storageNotes' = notes'
                    /\ out'.write = "ok" ]_vars

\* C9 witness: a note was deleted and another one is left
C9_Witness ==
    /\ out.op = "delete"
    /\ out.write = "ok"
    /\ out.id \in removed
    /\ notes # <<>>
    /\ storageNotes = notes

\* the operations that save one note: the popup's saves and the captures
SaveOps == PopupSaveOps \cup { "saveSelectedText", "savePageInfo" }

SuccessMessages ==
    { "Note saved successfully!", "Note deleted",
      "Text saved to NoteMaster!", "Page saved to NoteMaster!" }

\* C1: when a save of a note n1 has completed with no other save in flight
\* and the next step is a completed save of another note n2, the stored
\* collection then holds both n1 and n2.
C1_SequentialSavesKeepBoth ==
    [][ ( /\ out.op \in SaveOps /\ out.write = "ok"
          /\ inflight = <<>>
          /\ out'.op \in SaveOps /\ out'.write = "ok"
          /\ out'.id # out.id )
        => { out.id, out'.id } \subseteq Ids(storageNotes') ]_vars

\* C2: an id removed from the stored collection by deleteNote or by a
\* confirmed clearAllNotes is never in the stored collection again.
C2_DeletionIsTerminal ==
    removed \cap Ids(storageNotes) = {}

\* C3: a popup save or delete whose storage write rejects leaves this.notes
\* as it was before the operation.
C3_FailedWriteLeavesMemory ==
    [][ ( out'.op \in PopupSaveOps \cup { "delete" } /\ out'.write = "fail" )
        => notes' = notes ]_vars

\* C4: after a storage write that rejected, none of the success messages
\* is shown.
C4_NoSuccessSignalOnFailure ==
    out.write = "fail" => out.msg \notin SuccessMessages

\* C7: no two notes of this.notes and no two notes of the stored collection
\* have the same id.
C7_IdsUnique ==
    /\ ~HasDuplicateIds(notes)
    /\ ~HasDuplicateIds(storageNotes)

\* C10: once a confirmed clearAllNotes has completed, the stored collection
\* and the this.notes of a loaded popup are both empty.
C10_ClearAllEmptiesEverything ==
    ( out.op = "clearAll" /\ out.write = "ok" )
        => ( storageNotes = <<>> /\ notes = <<>> )

\* C11: clearAllNotes stores the empty collection only when the text typed
\* into its prompt is exactly "DELETE"; with any other text, or the prompt
\* cancelled, the stored collection is unchanged and no write is issued.
C11_ClearOnlyOnExactPhrase ==
    [][ \A c \in Confirmations, ok \in Unreliable :
            clearAllNotes(c, ok) =>
                /\ c # "DELETE" => storageNotes' = storageNotes /\ out'.write = "none"
                /\ (c = "DELETE" /\ ok) => storageNotes' = <<>> /\ out'.write = "ok"
                /\ (c = "DELETE" /\ ~ok) => storageNotes' = storageNotes ]_vars

\* C11 witness: a confirmed clearAllNotes emptied a stored collection that
\* held notes
C11_Witness ==
    /\ out.op = "clearAll"
    /\ out.write = "ok"
    /\ removed # {}
    /\ storageNotes = <<>>

\* the sequence holds its notes newest modified first
IsModifiedDescending(coll) ==
    \A i, j \in 1..Len(coll) : i < j => coll[i].modified >= coll[j].modified

\* the two sequences hold the same notes, each once
IsPermutation(a, b) ==
    /\ Len(a) = Len(b)
    /\ \E f \in [1..Len(a) -> 1..Len(b)] :
          /\ \A i, j \in 1..Len(a) : i # j => f[i] # f[j]
          /\ \A i \in 1..Len(a) : a[i] = b[f[i]]

\* C12: loadNotes never fails its caller: the popup is constructed, and
\* this.notes is empty when the read rejected or nothing is stored, and
\* otherwise the stored collection ordered by modified descending.
C12_LoadNeverFails ==
    [][ out'.op = "load"
        => /\ popupOpen'
           /\ IF out'.write = "getfail" THEN notes' = <<>>
              ELSE /\ IsPermutation(notes', storageNotes)
                   /\ IsModifiedDescending(notes')
           /\ storageNotes' = storageNotes ]_vars

\* C12 witness: the read of loadNotes rejected while notes were stored, and
\* the popup came up with an empty collection
C12_Witness ==
    /\ out.op = "load"
    /\ out.write = "getfail"
    /\ popupOpen
    /\ notes = <<>>
    /\ storageNotes # <<>>

\* the listed notes are exactly the notes of coll, in their order, in whose
\* lower-cased title or content the term occurs
ListsExactlyMatches(listed, coll, term) ==
    /\ \A k \in 1..Len(coll) :
          ( \E i \in 1..Len(listed) : listed[i] = coll[k] )
          <=> ( \/ includes(toLowerCase(coll[k].title), term)
                \/ includes(toLowerCase(coll[k].content), term) )
    /\ \A i \in 1..Len(listed) : \E k \in 1..Len(coll) : listed[i] = coll[k]
    /\ \A i, j \in 1..Len(listed) :
          i < j => FindIndex(coll, listed[i].id) < FindIndex(coll, listed[j].id)

\* C13 (as amended): searchNotes(q) lists the whole collection when q is
\* empty or only whitespace, and otherwise exactly the notes in whose title
\* or raw content q, with the whitespace around it removed, occurs, case
\* being ignored; this.notes and the stored collection are not changed.
C13_SearchListsTrimmedMatches ==
    [][ out'.op = "search"
        => LET q == searchInput' IN
           /\ IF Trim(q) = <<>> THEN view' = notes
              ELSE \A term \in { toLowerCase(Trim(q)) } :
                       ListsExactlyMatches(view', notes, term)
           /\ notes' = notes
           /\ storageNotes' = storageNotes ]_vars

\* C13 witness: a search listed some of the notes and left others out
C13_Witness ==
    /\ out.op = "search"
    /\ searchInput = << "u", "r", "l" >>
    /\ view # <<>>
    /\ Len(view) < Len(notes)

\* C13 as stated: the notes listed are those in which q itself occurs
C13_SearchListsMatches ==
    [][ out'.op = "search"
        => LET q == searchInput' IN
           /\ IF Trim(q) = <<>> THEN view' = notes
              ELSE \A term \in { toLowerCase(q) } :
                       ListsExactlyMatches(view', notes, term)
           /\ notes' = notes
           /\ storageNotes' = storageNotes ]_vars

\* the order sortNotes promises for a criterion, between two listed notes
InSortOrder(sortBy, a, b) ==
    CASE sortBy = "created" -> a.created >= b.created
      [] sortBy = "title" -> localeCompare(a.title, b.title) <= 0
      [] OTHER -> a.modified >= b.modified

\* C14: sortNotes(criterion) lists a permutation of the whole collection,
\* ordered by created descending for "created", by title ascending for
\* "title" and by modified descending for "modified" and for every other
\* criterion, and changes neither this.notes nor the persisted collection.
C14_SortListsOrderedPermutation ==
    [][ out'.op = "sort"
        => /\ IsPermutation(view', notes)
           /\ \A i, j \in 1..Len(view') :
                  i < j => InSortOrder(sortSelect', view'[i], view'[j])
           /\ notes' = notes
           /\ storageNotes' = storageNotes ]_vars

\* a sort by creation time that lists a note ahead of one modified later
C14_Witness ==
    /\ out.op = "sort"
    /\ sortSelect = "created"
    /\ \E i, j \in 1..Len(view) : i < j /\ view[i].modified < view[j].modified

\* every note the program holds: in the popup's memory, open in the editor,
\* persisted, or carried by a background save between its read and its write
AllNotes ==
    { notes[i] : i \in 1..Len(notes) }
        \cup { currentNote[i] : i \in 1..Len(currentNote) }
        \cup { storageNotes[i] : i \in 1..Len(storageNotes) }
        \cup { inflight[i].note : i \in 1..Len(inflight) }
        \cup UNION { { inflight[i].read[k] : k \in 1..Len(inflight[i].read) } :
                     i \in 1..Len(inflight) }

\* C15: with a clock that never runs backwards, every note in memory and
\* every persisted note has modified >= created, however it was created and
\* however often it was saved.
C15_ModifiedNotBeforeCreated ==
    \A n \in AllNotes : n.modified >= n.created

\* a persisted note that was saved again after the clock advanced
C15_Witness ==
    /\ \E i \in 1..Len(storageNotes) :
          storageNotes[i].modified > storageNotes[i].created
    /\ \E i \in 1..Len(storageNotes) : storageNotes[i].created > 0

\* C16: a capture whose source lacks required data (no selected text; no
\* page title or no URL for a page capture) aborts silently: no note is
\* created, the persisted collection is unchanged and no notification is
\* shown.  savePageInfo never looks at tab.title or tab.url.
C16_IncompleteCaptureAborts ==
    [][ \A r \in FreshDraws, readOk \in Unreliable :
          /\ \A hasDocument \in BOOLEAN :
                SaveSelectedText(<<>>, r, hasDocument, readOk)
                    => /\ inflight' = inflight
                       /\ storageNotes' = storageNotes
                       /\ out'.msg = "none"
          /\ \A tab \in Tabs \ { CompleteTab } :
                SavePageInfo(tab, r, readOk)
                    => /\ inflight' = inflight
                       /\ storageNotes' = storageNotes
                       /\ out'.msg = "none" ]_vars

\* C17: after loadSettings, in the popup and on the options page,
\* this.settings has a defined value for theme, fontSize, fontFamily,
\* autoSave and exportFormat, also when no settings are stored and when the
\* read fails.  (The handlers of the options page only add keys, so the
\* property of the state after loadSettings is one of every later state.)
C17_SettingsDefinedAfterLoad ==
    /\ popupOpen => \A k \in SettingKeys : IsDefined(settings, k)
    /\ optionsSettings # <<>>
          => \A k \in SettingKeys : IsDefined(optionsSettings[1], k)

\* the texts the two inputs of the editor can hold
TitleTexts == TitleInputs \cup { <<>>, WelcomeTitle, UntitledNote }
EditorTexts == EditorInputs \cup { <<>>, WelcomeContent, Trim(WelcomeContent) }

InputsAreKnownTexts == noteTitle \in TitleTexts /\ noteEditor \in EditorTexts

\* the persisted collection holds the open note as a save of the two texts
\* leaves it
IsPersistedEdit(title, content) ==
    \E i \in 1..Len(storageNotes) :
        /\ storageNotes[i].id = currentNote[1].id
        /\ storageNotes[i].title
               = IF Trim(title) = <<>> THEN UntitledNote ELSE Trim(title)
        /\ storageNotes[i].content = Trim(content)

ExportNames(format) ==
    { prefix \o << "_" >> \o IsoDate(t) \o << "." >> \o ExtensionOf[format] :
          prefix \in { PopupPrefix, OptionsPrefix }, t \in 0..MaxTime }

\* C19: every export, from the popup and from the options page, downloads
\* a file named `<prefix>_<ISO-date>.<ext>` whose extension is one of json,
\* txt, md, html and is the configured export format (json where the popup
\* finds none configured), and whose content is not empty when the
\* collection is not.
C19_ExportsAreNamedAndFilled ==
    [][ download' # download
        => LET fromPopup == out'.msg = "All notes exported!"
               object == IF fromPopup THEN settings ELSE optionsSettings[1]
               coll == IF fromPopup THEN notes ELSE storageNotes
               file == download'[1]
           IN /\ \E format \in ExportFormats :
                    /\ file.filename \in ExportNames(format)
                    /\ IsDefined(object, "exportFormat")
                           => format = object["exportFormat"]
              /\ coll # <<>> => file.content # <<>> ]_vars

\* C20: the persisted collection stays in insertion order, newest first: no
\* step changes the order of two notes that are persisted before and after
\* it.
C20_PersistedOrderKept ==
    [][ \A a, b \in Ids(storageNotes) \cap Ids(storageNotes') :
            FindIndex(storageNotes, a) < FindIndex(storageNotes, b)
                => FindIndex(storageNotes', a) < FindIndex(storageNotes', b) ]_vars

\* the notes of a collection other than the one with the id
OthersOf(coll, id) == { coll[i] : i \in { k \in 1..Len(coll) : coll[k].id # id } }

\* the fields a save must not touch
KeepsIdentity(before, after) ==
    /\ after.id = before.id
    /\ after.created = before.created
    /\ after.tags = before.tags
    /\ after.category = before.category

\* C21: a completed save of the popup keeps the id, created, tags and
\* category of the saved note, in memory and as persisted, and leaves every
\* other note of the in-memory collection as it was, in all fields; the
\* persisted collection then holds those same notes.
C21_SaveTouchesOnlyItsNote ==
    [][ ( out'.op \in PopupSaveOps /\ out'.write = "ok" )
        => LET id == out'.id
               before == currentNote[1]
           IN /\ before.id = id
              /\ \A k \in 1..Len(notes) : notes[k].id = id
                     => KeepsIdentity(notes[k], before)
              /\ \A k \in 1..Len(notes') : notes'[k].id = id
                     => KeepsIdentity(before, notes'[k])
              /\ \A k \in 1..Len(storageNotes') : storageNotes'[k].id = id
                     => KeepsIdentity(before, storageNotes'[k])
              /\ OthersOf(notes', id) = OthersOf(notes, id)
              /\ OthersOf(storageNotes', id) = OthersOf(notes, id) ]_vars

\* a later save of a captured or welcome note that has a neighbour
C21_Witness ==
    /\ out.op \in PopupSaveOps
    /\ out.write = "ok"
    /\ \E k \in 1..Len(storageNotes) :
          /\ storageNotes[k].id = out.id
          /\ storageNotes[k].modified > storageNotes[k].created
          /\ storageNotes[k].tags # NoTags
    /\ OthersOf(storageNotes, out.id) # {}

\* C22: once every capture gesture has completed (no save is in flight),
\* with no storage failure and no writer but the captures, the persisted
\* collection holds the welcome note and exactly one note per gesture.
C22_OneNotePerGesture ==
    ( installed /\ inflight = <<>> ) => Len(storageNotes) = 1 + clicks

\* C23: the auto-save timer only ever saves the note whose input armed it:
\* when it fires it changes and writes no note but that one, and neither
\* this.notes nor the persisted collection changes when the editor holds
\* another note or none.
C23_TimerSavesOnlyItsNote ==
    [][ ( out'.op = "autoSave" /\ autoSaveTimeout /\ ~autoSaveTimeout' )
        => \/ out'.id = armedFor
           \/ /\ notes' = notes
              /\ storageNotes' = storageNotes ]_vars


\* C24: every explicit save (showFeedback = true) that passes validation
\* leaves the editor closed (isEditing = false, currentNote = null) and does
\* not raise the unsaved-changes prompt, for every title and content: an empty
\* title stored as "Untitled Note", and values with leading or trailing
\* whitespace, included.
C24_ExplicitSaveClosesEditor ==
    [][ ( out'.op = "save" /\ out'.msg \in SuccessMessages )
        => /\ ~closePrompt'
           /\ ~isEditing'
           /\ currentNote' = <<>> ]_vars

\* C25: for one load of the popup document exactly one NoteMaster instance
\* is constructed, whatever document.readyState is when the script runs and
\* whenever DOMContentLoaded fires: never more than one, and one as soon as
\* DOMContentLoaded is not pending any more.
C25_OneInstancePerLoad ==
    /\ instances <= 1
    /\ ( readyState # "none" /\ ~domPending ) => instances = 1

=============================================================================
